---- MODULE Spec2Model ----
(***************************************************************************)
(* AutoSysMonitor: the log lifecycle manager (logger.py), the alert sink   *)
(* (monitor.py) and the sampling driver (main.py).                         *)
(*                                                                         *)
(* Time is a clock of whole seconds, `now`.  A day has DaySecs seconds     *)
(* (the real 86400 scaled down); a percentage is an integer number of      *)
(* tenths (85.0% is 850).  The disk is a map from file names to files; a   *)
(* file is its lines, its modification time and, for a gzip stream,        *)
(* whether the stream was closed completely.                               *)
(***************************************************************************)
EXTENDS Integers, Sequences, FiniteSets, TLC

(* ------------------------------ bounds ------------------------------- *)

\* seconds in a day (86400 scaled down)
DaySecs == 2
\* metrics records the sampler produces in one behaviour
MaxRecords == 3
\* injected compression failures in one behaviour
MaxFaults == 1
\* `rotate` commands run in one behaviour
MaxManual == 2
\* lookback windows (days) a query asks for
DaysChoices == {1}
\* cpu percentages (tenths) a sample can carry: at the threshold, above it
CpuValues == {800, 850}
\* memory and disk percentages (tenths) a sample can carry
MemValues == {678}
DiskValues == {231}
\* appends to the character-level syslog.txt in one behaviour
MaxTextLines == 2
\* appends cut short by a failing write in one behaviour
MaxCuts == 1
\* lines put into syslog.txt by something else in one behaviour
MaxGarbage == 1
\* characters of a line that a failing write leaves out: the newline, parts
\* of the disk field, and from the memory and the cpu field on
CutBack == {1, 2, 3, 4, 5, 6, 7, 20, 40}
\* cpu and disk percentages (tenths) of the character-level records: below
\* 0, within 0..100 and above 100
TextCpu == {-53, 452, 1234}
TextDisk == {231}
\* lines that are not of log_metrics: one field, a number that does not
\* parse, a timestamp that does not parse, a byte that is not UTF-8
GarbageLines ==
    { <<"g", "a", "r", "b", "a", "g", "e", "\n">>,
      <<"2", "0", "2", "3", "-", "1", "2", "-", "0", "1", " ", "1", "0", ":", "3", "0",
        ":", "0", "0", " ", "|", " ", "x", " ", "|", " ", "1", " ", "|", " ", "2", "\n">>,
      <<"n", "o", "w", " ", "|", " ", "1", " ", "|", " ", "2", " ", "|", " ", "3", "\n">>,
      <<"<ff>", "\n">> }

(* ------------------------- program constants ------------------------- *)

\* LogManager.max_size, in bytes.  The constructor's default is 1048576;
\* the attribute is set to 100 as in the rotation scenario of the
\* specification, so that two record lines exceed it.
max_size == 100
\* LogManager.max_age, in days.  The constructor's default is 3; the
\* attribute is set to 1, so that the age threshold is met within few ticks.
max_age == 1
\* SystemMonitor.cpu_threshold, in tenths of a percent (80.0)
cpu_threshold == 800
\* _monitor_loop's time.sleep(60) after a tick, in seconds
SampleInterval == 60
\* _monitor_loop's time.sleep(5) in its except clause, in seconds
BackOffInterval == 5

\* the clock stops advancing one second after the age threshold can be met
MaxTime == max_age * DaySecs + 1

None == [none |-> TRUE]
Streams == {"syslog", "alerts"}

(* ------------------------------ names -------------------------------- *)

\* self.log_file / self.alert_file: "syslog.txt", "alerts.txt"
Active(s) == [stream |-> s, kind |-> "active", ts |-> 0]
\* f"{stream}_backup_{timestamp}.txt"
BackupName(s, t) == [stream |-> s, kind |-> "txt", ts |-> t]
\* f"{filename}.gz"
GzName(n) == [stream |-> n.stream, kind |-> "gz", ts |-> n.ts]

\* Position of an archive name in sorted(): the timestamps have a fixed
\* width, and "X.txt" is a proper prefix of "X.txt.gz".
NameKey(n) == 2 * n.ts + (IF n.kind = "gz" THEN 1 ELSE 0)

(* ------------------------------ lines -------------------------------- *)

\* length of f"{x:.1f}" for a value of x tenths, x >= 0
NumLen(x) == IF x < 100 THEN 3 ELSE IF x < 1000 THEN 4 ELSE 5

\* The line log_metrics writes for a metrics dict.
FormatMetrics(m) ==
    [kind |-> "metric", stamp |-> m.timestamp,
     cpu |-> m.cpu_percent, ram |-> m.memory_percent, disk |-> m.disk_percent]

\* The message check_alerts builds and the line log_alert writes for it.
AlertMessage(m) == [cpu |-> m.cpu_percent, at |-> m.timestamp]
FormatAlert(t, msg) == [kind |-> "alert", stamp |-> t, msg |-> msg]

\* Bytes of a line, the newline included:
\*   "YYYY-MM-DD HH:MM:SS | CPU: c% | RAM: r% | Disk: d%\n"
\*   "YYYY-MM-DD HH:MM:SS | HIGH CPU USAGE ALERT: c% at YYYY-MM-DD HH:MM:SS\n"
LineBytes(l) ==
    IF l.kind = "metric"
    THEN 48 + NumLen(l.cpu) + NumLen(l.ram) + NumLen(l.disk)
    ELSE 69 + NumLen(l.msg.cpu)

\* _parse_log_line: a line that splits into 4 fields parses to an entry.
ParseLogLine(l) ==
    IF l.kind = "metric"
    THEN [timestamp |-> l.stamp, cpu_percent |-> l.cpu,
          memory_percent |-> l.ram, disk_percent |-> l.disk]
    ELSE None

(* ------------------------------- disk -------------------------------- *)

File(ls, t, ok) == [lines |-> ls, mtime |-> t, ok |-> ok]

Exists(d, n) == n \in DOMAIN d
Put(d, n, f) == [x \in (DOMAIN d) \cup {n} |-> IF x = n THEN f ELSE d[x]]
Remove(d, n) == [x \in (DOMAIN d) \ {n} |-> d[x]]

RECURSIVE SumBytes(_)
SumBytes(ls) == IF ls = <<>> THEN 0 ELSE LineBytes(Head(ls)) + SumBytes(Tail(ls))

\* os.path.getsize
GetSize(d, n) == SumBytes(d[n].lines)

\* an append that leaves the modification time of an existing file alone
AppendLineKeepsMtime(d, n, l, t) ==
    Put(d, n, IF Exists(d, n) THEN File(d[n].lines \o <<l>>, d[n].mtime, TRUE)
              ELSE File(<<l>>, t, TRUE))

\* open(name, 'a').write(line): the file is created when it is absent.
AppendLine(d, n, l, t) ==
    Put(d, n, File((IF Exists(d, n) THEN d[n].lines ELSE <<>>) \o <<l>>, t, TRUE))

\* shutil.move(src, dst): a rename, which replaces an existing dst and keeps
\* the modification time.
Move(d, src, dst) == Remove(Put(d, dst, d[src]), src)

(* ------------------------------ queries ------------------------------ *)

Range(q) == {q[i] : i \in 1..Len(q)}

\* datetime.now() - timedelta(days=days)
Cutoff(t, days) == t - days * DaySecs

RECURSIVE ParseLines(_, _)
ParseLines(ls, cutoff) ==
    IF ls = <<>> THEN <<>>
    ELSE LET entry == ParseLogLine(Head(ls))
         IN  (IF entry # None /\ entry.timestamp >= cutoff THEN <<entry>> ELSE <<>>)
             \o ParseLines(Tail(ls), cutoff)

\* _parse_log_file: the entries of the file's lines at or after the cutoff;
\* a file that cannot be opened gives no entries.
ParseLogFile(d, n, t, days) ==
    IF Exists(d, n) THEN ParseLines(d[n].lines, Cutoff(t, days)) ELSE <<>>

\* _parse_compressed_log_file: the same through gzip; of a stream that was
\* not closed completely the lines written are read before the error.
ParseCompressedLogFile(d, n, t, days) ==
    IF Exists(d, n) THEN ParseLines(d[n].lines, Cutoff(t, days)) ELSE <<>>

RECURSIVE SortNames(_)
SortNames(S) ==
    IF S = {} THEN <<>>
    ELSE LET m == CHOOSE x \in S : \A y \in S : NameKey(x) <= NameKey(y)
         IN  <<m>> \o SortNames(S \ {m})

\* the names os.listdir gives that _get_backup_files takes
IsBackupName(n) == n.stream = "syslog" /\ n.kind \in {"txt", "gz"}

\* the archive names of the metrics stream that os.listdir('.') gives
Backups(d) == {n \in DOMAIN d : IsBackupName(n)}

\* _get_backup_files taking only the names that end in '.gz'
GetBackupFilesGzOnly(d, t, days) ==
    SortNames({n \in DOMAIN d :
                 n.stream = "syslog" /\ n.kind = "gz" /\ d[n].mtime >= Cutoff(t, days)})

\* _get_backup_files: the archives of the metrics stream modified at or
\* after the cutoff, sorted by name.
GetBackupFiles(d, t, days) ==
    SortNames({n \in DOMAIN d : IsBackupName(n) /\ d[n].mtime >= Cutoff(t, days)})

\* one archive, by its suffix
ParseBackup(d, n, t, days) ==
    IF n.kind = "gz" THEN ParseCompressedLogFile(d, n, t, days)
    ELSE ParseLogFile(d, n, t, days)

RECURSIVE ParseBackups(_, _, _, _)
ParseBackups(d, names, t, days) ==
    IF names = <<>> THEN <<>>
    ELSE ParseBackup(d, Head(names), t, days) \o ParseBackups(d, Tail(names), t, days)

\* an insertion that puts a record before the records of its timestamp
RECURSIVE InsertBeforeTies(_, _)
InsertBeforeTies(e, sorted) ==
    IF sorted = <<>> THEN <<e>>
    ELSE IF Head(sorted).timestamp < e.timestamp
         THEN <<Head(sorted)>> \o InsertBeforeTies(e, Tail(sorted))
         ELSE <<e>> \o sorted

\* list.sort(key=timestamp): stable
RECURSIVE InsertByTimestamp(_, _)
InsertByTimestamp(e, sorted) ==
    IF sorted = <<>> THEN <<e>>
    ELSE IF Head(sorted).timestamp <= e.timestamp
         THEN <<Head(sorted)>> \o InsertByTimestamp(e, Tail(sorted))
         ELSE <<e>> \o sorted

RECURSIVE SortByTimestamp(_)
SortByTimestamp(data) ==
    IF data = <<>> THEN <<>>
    ELSE InsertByTimestamp(data[Len(data)], SortByTimestamp(SubSeq(data, 1, Len(data) - 1)))

\* read_log_data, run with no writer step in between
ReadLogData(d, t, days) ==
    SortByTimestamp(
        (IF Exists(d, Active("syslog")) THEN ParseLogFile(d, Active("syslog"), t, days)
         ELSE <<>>)
        \o ParseBackups(d, GetBackupFiles(d, t, days), t, days))

\* the age of a file counted from its first line instead of its last write
FileAgeDaysSinceFirstLine(d, n, t) ==
    (t - (IF d[n].lines = <<>> THEN d[n].mtime ELSE d[n].lines[1].stamp)) \div DaySecs

\* _needs_rotation: timedelta.days is the whole days of now - mtime
FileAgeDays(d, n, t) == (t - d[n].mtime) \div DaySecs

\* _needs_rotation without its size check
NeedsRotationAgeOnly(d, t) ==
    IF ~Exists(d, Active("syslog")) THEN FALSE
    ELSE FileAgeDays(d, Active("syslog"), t) >= max_age

\* _needs_rotation without its age check
NeedsRotationSizeOnly(d, t) ==
    IF ~Exists(d, Active("syslog")) THEN FALSE
    ELSE GetSize(d, Active("syslog")) > max_size

NeedsRotation(d, t) ==
    IF ~Exists(d, Active("syslog")) THEN FALSE
    ELSE IF GetSize(d, Active("syslog")) > max_size THEN TRUE
    ELSE FileAgeDays(d, Active("syslog"), t) >= max_age

(* ------------------------ lines as characters ----------------------- *)

\* A text is a sequence of characters, each a string of length one; a byte
\* that is not valid UTF-8 is the one element Undecodable.
Undecodable == "<ff>"
Whitespace == {" ", "\n", "\t", "\r"}
Digit == <<"0", "1", "2", "3", "4", "5", "6", "7", "8", "9">>
IsDigit(c) == \E i \in 1..10 : Digit[i] = c
DigitVal(c) == (CHOOSE i \in 1..10 : Digit[i] = c) - 1
AllDigits(s) == \A i \in 1..Len(s) : IsDigit(s[i])

RECURSIVE NatChars(_)
NatChars(n) ==
    IF n < 10 THEN <<Digit[n + 1]>> ELSE NatChars(n \div 10) \o <<Digit[(n % 10) + 1]>>

RECURSIVE NatVal(_)
NatVal(s) ==
    IF s = <<>> THEN 0 ELSE 10 * NatVal(SubSeq(s, 1, Len(s) - 1)) + DigitVal(s[Len(s)])

Pad2(n) == <<Digit[(n \div 10) + 1], Digit[(n % 10) + 1]>>

\* f"{x:.1f}" that leaves out the sign
FormatFloatAbs(x) ==
    LET a == IF x < 0 THEN 0 - x ELSE x
    IN  NatChars(a \div 10) \o <<".", Digit[(a % 10) + 1]>>

\* f"{x:.1f}" for a value of x tenths
FormatFloat(x) ==
    LET a == IF x < 0 THEN 0 - x ELSE x
    IN  (IF x < 0 THEN <<"-">> ELSE <<>>) \o NatChars(a \div 10)
        \o <<".", Digit[(a % 10) + 1]>>

\* datetime.now().strftime("%Y-%m-%d %H:%M:%S") at second t of the clock,
\* which starts on 2023-12-01 at 10:30:00; a day has DaySecs seconds, so the
\* day field is 1 + t \div DaySecs and the seconds field t % DaySecs.
FormatStamp(t) ==
    <<"2", "0", "2", "3", "-", "1", "2", "-">> \o Pad2(1 + t \div DaySecs)
    \o <<" ", "1", "0", ":", "3", "0", ":">> \o Pad2(t % DaySecs)

FieldSep == <<" ", "|", " ">>
CpuLabel == <<"C", "P", "U", ":", " ">>
RamLabel == <<"R", "A", "M", ":", " ">>
DiskLabel == <<"D", "i", "s", "k", ":", " ">>

\* log_metrics's log_entry for a metrics dict
FormatLine(m) ==
    FormatStamp(m.timestamp) \o FieldSep
    \o CpuLabel \o FormatFloat(m.cpu_percent) \o <<"%">> \o FieldSep
    \o RamLabel \o FormatFloat(m.memory_percent) \o <<"%">> \o FieldSep
    \o DiskLabel \o FormatFloat(m.disk_percent) \o <<"%", "\n">>

\* str.strip(): what lies between the first and the last character that is
\* not a blank
Strip(s) ==
    LET keep == {i \in 1..Len(s) : s[i] \notin Whitespace}
    IN  IF keep = {} THEN <<>>
        ELSE SubSeq(s, CHOOSE i \in keep : \A j \in keep : i <= j,
                       CHOOSE i \in keep : \A j \in keep : i >= j)

\* str.find(sub) + 1: where sub first occurs in s, 0 when it does not
Find(s, sub) ==
    LET hits == {i \in 1..(Len(s) - Len(sub) + 1) : SubSeq(s, i, i + Len(sub) - 1) = sub}
    IN  IF hits = {} THEN 0 ELSE CHOOSE i \in hits : \A j \in hits : i <= j

\* str.split(sep)
RECURSIVE Split(_, _)
Split(s, sep) ==
    LET i == Find(s, sep)
    IN  IF i = 0 THEN <<s>>
        ELSE <<SubSeq(s, 1, i - 1)>> \o Split(SubSeq(s, i + Len(sep), Len(s)), sep)

\* str.replace(old, '')
RECURSIVE Replace(_, _)
Replace(s, old) ==
    LET i == Find(s, old)
    IN  IF i = 0 THEN s
        ELSE SubSeq(s, 1, i - 1) \o Replace(SubSeq(s, i + Len(old), Len(s)), old)

Unparsed == [ok |-> FALSE, v |-> 0]

\* float(str), in tenths: blanks around it stripped, an optional sign, then
\* digits with at most one point and at least one digit.  (The texts of this
\* model carry no exponent, "inf", "nan" or underscore, and at most one
\* digit after the point.)
ParseFloat(str) ==
    LET s == Strip(str)
        neg == s # <<>> /\ Head(s) = "-"
        u == IF s # <<>> /\ Head(s) \in {"-", "+"} THEN Tail(s) ELSE s
        parts == Split(u, <<".">>)
        ip == parts[1]
        fp == IF Len(parts) = 2 THEN parts[2] ELSE <<>>
        mag == 10 * NatVal(ip) + (IF fp = <<>> THEN 0 ELSE DigitVal(fp[1]))
    IN  IF /\ Len(parts) <= 2
           /\ AllDigits(ip) /\ AllDigits(fp)
           /\ (ip # <<>> \/ fp # <<>>)
        THEN [ok |-> TRUE, v |-> IF neg THEN 0 - mag ELSE mag]
        ELSE Unparsed

\* datetime.strptime(str, "%Y-%m-%d %H:%M:%S") as a second of the clock, for
\* the fixed-width form strftime writes.  (The stamps of this model are all
\* of December 2023, 10:30.)
ParseStamp(s) ==
    IF /\ Len(s) = 19
       /\ \A i \in {1, 2, 3, 4, 6, 7, 9, 10, 12, 13, 15, 16, 18, 19} : IsDigit(s[i])
       /\ s[5] = "-" /\ s[8] = "-" /\ s[11] = " " /\ s[14] = ":" /\ s[17] = ":"
    THEN LET two(i) == 10 * DigitVal(s[i]) + DigitVal(s[i + 1])
         IN  IF /\ two(6) \in 1..12 /\ two(9) \in 1..31
                /\ two(12) <= 23 /\ two(15) <= 59 /\ two(18) <= 61
             THEN [ok |-> TRUE, v |-> (two(9) - 1) * DaySecs + two(18)]
             ELSE Unparsed
    ELSE Unparsed

\* _parse_log_line on the characters of a stripped line
ParseLine(line) ==
    LET parts == Split(line, FieldSep)
    IN  IF Len(parts) # 4 THEN None
        ELSE LET ts == ParseStamp(parts[1])
                 cpu == ParseFloat(Replace(Replace(parts[2], CpuLabel), <<"%">>))
                 ram == ParseFloat(Replace(Replace(parts[3], RamLabel), <<"%">>))
                 disk == ParseFloat(Replace(Replace(parts[4], DiskLabel), <<"%">>))
             IN  IF ts.ok /\ cpu.ok /\ ram.ok /\ disk.ok
                 THEN [timestamp |-> ts.v, cpu_percent |-> cpu.v,
                       memory_percent |-> ram.v, disk_percent |-> disk.v]
                 ELSE None

\* `for line in f`: the text cut after each newline
RECURSIVE FileLines(_)
FileLines(s) ==
    LET i == Find(s, <<"\n">>)
    IN  IF s = <<>> THEN <<>>
        ELSE IF i = 0 THEN <<s>>
             ELSE <<SubSeq(s, 1, i)>> \o FileLines(SubSeq(s, i + 1, Len(s)))

\* the loop of _parse_log_file over decoded lines
RECURSIVE ParseTextLines(_, _)
ParseTextLines(ls, cutoff) ==
    IF ls = <<>> THEN <<>>
    ELSE LET entry == ParseLine(Strip(Head(ls)))
         IN  (IF entry # None /\ entry.timestamp >= cutoff THEN <<entry>> ELSE <<>>)
             \o ParseTextLines(Tail(ls), cutoff)

\* _parse_log_file on a file's bytes.  open(..., encoding='utf-8') decodes a
\* chunk of 8192 bytes at a time and a file of this model is shorter than
\* that: a byte that does not decode raises before the first line is given,
\* and the except clause returns the entries so far, none.
ParseText(bytes, cutoff) ==
    IF Undecodable \in Range(bytes) THEN <<>>
    ELSE ParseTextLines(FileLines(bytes), cutoff)

\* read_log_data with syslog.txt as the only segment on disk
ReadText(bytes, t, days) == SortByTimestamp(ParseText(bytes, Cutoff(t, days)))

(* ------------------------------- state ------------------------------- *)

VARIABLES
    now,          \* the clock, in seconds
    fs,           \* the disk: file name -> file
    monitoring,   \* AutoSysMonitor.monitoring
    mpc,          \* the main thread's position in start_monitoring
    handler,      \* whether main() installed signal_handler for SIGINT/SIGTERM
    pc,           \* the position of the code that writes the log store
    metrics,      \* the tick's sample (None: get_system_metrics failed)
    caller,       \* who runs rotate_logs: "loop" (check_rotation), "cli" (`rotate`)
                  \* or "second" (check_rotation of the second sampling thread)
    ret,          \* the sampler's position while another's rotate_logs runs
    rts,          \* rotate_logs's timestamp
    cname,        \* _compress_file's filename
    pre,          \* the disk when the running rotate_logs was entered, else empty (history)
    cfailed,      \* the streams whose _compress_file raised in this rotate_logs (history)
    killedAt,     \* where the sampler thread was when the process exited (history)
    nrec,         \* records sampled so far
    faults,       \* compression failures so far
    manual,       \* `rotate` commands so far
    breaches,     \* ticks so far whose sample exceeded the threshold (history)
    alertsWritten,\* alert lines appended so far (history)
    readResult,   \* what the last read_log_data returned, until the next step
    rpc,          \* the concurrent reader's position in read_log_data
    rdays,        \* its days argument
    rdata,        \* its data list
    rnames,       \* the names os.listdir gave it that it has not examined yet
    rkeep,        \* its backup_files, those not parsed yet
    rstart,       \* the entries on disk, in its window, when it started (history)
    failed,       \* whether a step of the running tick failed (history)
    waited,       \* the seconds of the loop's last time.sleep (0: none yet)
    content,      \* syslog.txt as characters (the character-level log store)
    logged,       \* the records passed to log_metrics, in order (history)
    parsed,       \* what the last character-level read_log_data returned
    cuts,         \* appends cut short so far
    garbage,      \* lines put into syslog.txt by something else so far
    callers,      \* each calling thread's position in start_monitoring or stop_monitoring
    monitor_thread, \* AutoSysMonitor.monitor_thread: 0 (None), or the thread it names
    pc2,          \* the position of a second sampling thread
    wake2         \* when the second sampling thread's time.sleep ends

driver == <<monitoring, mpc, handler>>
rotation == <<caller, ret, rts, cname, pre, cfailed>>
counters == <<nrec, faults, manual, breaches, alertsWritten>>
reader == <<rpc, rdays, rdata, rnames, rkeep, rstart>>
tick == <<failed, waited>>
text == <<content, logged, parsed, cuts, garbage>>
calls == <<callers, monitor_thread, pc2, wake2>>
vars == <<now, fs, driver, pc, metrics, rotation, killedAt, counters, readResult, reader,
          tick, text, calls>>

\* the threads of a program that call start_monitoring and stop_monitoring
Callers == {"a", "b"}

EmptyDisk == [n \in {} |-> File(<<>>, 0, TRUE)]
\* killedAt while the sampler thread has not been stopped from outside
Alive == "alive"

\* The positions between two operations of the log store.
Boundaries == {"none", "top", "sample", "log", "alerts", "check", "sleep", "done", "killed"}

\* No process of the program runs yet.
NothingRuns ==
    /\ monitoring = FALSE
    /\ mpc = "idle"
    /\ handler \in BOOLEAN
    /\ pc = "none"
    /\ metrics = None
    /\ caller = "loop"
    /\ ret = "none"
    /\ rts = 0
    /\ cname = None
    /\ pre = EmptyDisk
    /\ cfailed = {}
    /\ killedAt = Alive
    /\ nrec = 0
    /\ faults = 0
    /\ manual = 0
    /\ breaches = 0
    /\ alertsWritten = 0
    /\ readResult = None
    /\ rpc = "idle"
    /\ rdays = 0
    /\ rdata = <<>>
    /\ rnames = {}
    /\ rkeep = {}
    /\ rstart = {}
    /\ failed = FALSE
    /\ waited = 0
    /\ content = <<>>
    /\ logged = <<>>
    /\ parsed = None
    /\ cuts = 0
    /\ garbage = 0
    /\ callers = [c \in Callers |-> <<"idle", 0>>]
    /\ monitor_thread = 0
    /\ pc2 = "none"
    /\ wake2 = 0

Init ==
    /\ now = 0
    /\ fs = EmptyDisk
    /\ NothingRuns

\* The caller of read_log_data has used the result before anything else runs.
Consume == readResult' = None

(* ------------------------------ driver ------------------------------- *)

\* start_monitoring, up to its wait loop
StartMonitoring ==
    /\ mpc = "idle"
    /\ ~monitoring
    /\ monitoring' = TRUE
    /\ pc' = "top"
    /\ mpc' = "wait"
    /\ Consume
    /\ UNCHANGED <<now, fs, handler, metrics, rotation, killedAt, tick, text, counters, reader,
                   calls>>

\* Ctrl+C with Python's default SIGINT handler: KeyboardInterrupt in the wait
\* loop, caught, and stop_monitoring up to its join.
StopMonitoring ==
    /\ mpc = "wait"
    /\ ~handler
    /\ monitoring
    /\ monitoring' = FALSE
    /\ mpc' = "join"
    /\ Consume
    /\ UNCHANGED <<now, fs, handler, pc, metrics, rotation, killedAt, tick, text, counters, reader,
                   calls>>

\* monitor_thread.join() returns once the loop has exited.
Join ==
    /\ mpc = "join"
    /\ pc = "done"
    /\ mpc' = "returned"
    /\ Consume
    /\ UNCHANGED <<now, fs, monitoring, handler, pc, metrics, rotation, killedAt, tick, text,
                   counters, reader, calls>>

\* SIGINT or SIGTERM with signal_handler installed: sys.exit(0) raises
\* SystemExit in the main thread, which `except KeyboardInterrupt` lets pass.
SignalHandler ==
    /\ mpc = "wait"
    /\ handler
    /\ mpc' = "exiting"
    /\ Consume
    /\ UNCHANGED <<now, fs, monitoring, handler, pc, metrics, rotation, killedAt, tick, text,
                   counters, reader, calls>>

\* The interpreter exits: the daemon thread stops wherever it is.
ProcessExit ==
    /\ mpc = "exiting"
    /\ mpc' = "exited"
    /\ killedAt' = (IF caller = "cli" THEN ret ELSE pc)
    /\ IF caller = "cli"
       THEN ret' = "killed" /\ pc' = pc
       ELSE pc' = "killed" /\ ret' = ret
    /\ Consume
    /\ UNCHANGED <<now, fs, monitoring, handler, metrics, caller, rts, cname, pre,
                   cfailed, counters, reader, tick, text, calls>>

\* `python main.py start` once more after the process has exited: main makes
\* a new AutoSysMonitor in the directory the last one left behind.
Restart ==
    /\ mpc = "exited"
    /\ monitoring' = FALSE
    /\ mpc' = "idle"
    /\ pc' = "none"
    /\ metrics' = None
    /\ caller' = "loop"
    /\ ret' = "none"
    /\ rts' = 0
    /\ cname' = None
    /\ pre' = EmptyDisk
    /\ cfailed' = {}
    /\ killedAt' = Alive
    /\ failed' = FALSE
    /\ waited' = 0
    /\ Consume
    /\ UNCHANGED <<now, fs, handler, text, counters, reader, calls>>

(* ------------------------- the sampling loop ------------------------- *)

\* while self.monitoring:
LoopTop ==
    /\ pc = "top"
    /\ pc' = (IF monitoring THEN "sample" ELSE "done")
    /\ failed' = FALSE
    /\ Consume
    /\ UNCHANGED <<now, fs, driver, metrics, rotation, killedAt, waited, text, counters, reader,
                   calls>>

Samples ==
    [timestamp : {now}, cpu_percent : CpuValues,
     memory_percent : MemValues, disk_percent : DiskValues]

\* get_system_metrics: a record stamped with the current second, or None
Sample ==
    /\ pc = "sample"
    /\ \E m \in {None} \cup (IF nrec < MaxRecords THEN Samples ELSE {}) :
          /\ metrics' = m
          /\ nrec' = (IF m = None THEN nrec ELSE nrec + 1)
          /\ breaches' =
                (IF m # None /\ m.cpu_percent > cpu_threshold THEN breaches + 1 ELSE breaches)
          /\ failed' = (m = None)
    /\ pc' = "log"
    /\ Consume
    /\ UNCHANGED <<now, fs, driver, rotation, killedAt, waited, text, faults, manual,
                   alertsWritten, reader, calls>>

\* log_metrics opening syslog.txt for append before it looks at metrics
LogMetricsOpensFirst(d, m, t) ==
    IF m = None
    THEN Put(d, Active("syslog"),
             IF Exists(d, Active("syslog")) THEN d[Active("syslog")] ELSE File(<<>>, t, TRUE))
    ELSE AppendLine(d, Active("syslog"), FormatMetrics(m), t)

\* log_metrics on the disk: `if not metrics: return`, else one line appended
LogMetricsWrite(d, m, t) ==
    IF m = None THEN d ELSE AppendLine(d, Active("syslog"), FormatMetrics(m), t)

\* log_metrics
LogMetrics ==
    /\ pc = "log"
    /\ fs' = LogMetricsWrite(fs, metrics, now)
    /\ pc' = "alerts"
    /\ Consume
    /\ UNCHANGED <<now, driver, metrics, rotation, killedAt, tick, text, counters, reader, calls>>

\* check_alerts comparing with >=
BreachInclusive(m) == m # None /\ m.cpu_percent >= cpu_threshold

\* check_alerts's condition
Breach(m) == m # None /\ m.cpu_percent > cpu_threshold

\* check_alerts, with log_alert
CheckAlerts ==
    /\ pc = "alerts"
    /\ IF Breach(metrics)
       THEN /\ fs' = AppendLine(fs, Active("alerts"),
                                FormatAlert(now, AlertMessage(metrics)), now)
            /\ alertsWritten' = alertsWritten + 1
       ELSE UNCHANGED <<fs, alertsWritten>>
    /\ pc' = "check"
    /\ Consume
    /\ UNCHANGED <<now, driver, metrics, rotation, killedAt, tick, text, nrec, faults, manual,
                   breaches, reader, calls>>

\* check_rotation: _needs_rotation, and the entry of rotate_logs
CheckRotation ==
    /\ pc = "check"
    /\ IF NeedsRotation(fs, now)
       THEN /\ pc' = "rot_log"
            /\ rts' = now
            /\ pre' = fs
            /\ caller' = "loop"
            /\ cfailed' = {}
       ELSE /\ pc' = "sleep"
            /\ UNCHANGED <<rts, pre, caller, cfailed>>
    /\ Consume
    /\ UNCHANGED <<now, fs, driver, metrics, ret, cname, killedAt, tick, text, counters, reader,
                   calls>>

\* time.sleep(60): the clock has moved on when the loop comes back.
Sleep ==
    /\ pc = "sleep"
    /\ now < MaxTime
    /\ now' = now + 1
    /\ waited' = SampleInterval
    /\ pc' = "top"
    /\ metrics' = None
    /\ Consume
    /\ UNCHANGED <<fs, driver, rotation, killedAt, failed, text, counters, reader, calls>>

\* Time passes while no sampler runs.
Advance ==
    /\ now < MaxTime
    /\ pc \in {"none", "done", "killed"}
    /\ rpc = "idle"
    /\ now' = now + 1
    /\ Consume
    /\ UNCHANGED <<fs, driver, pc, metrics, rotation, killedAt, tick, text, counters, reader,
                   calls>>

(* ----------------------------- rotation ------------------------------ *)

\* gzip.open(f"{filename}.gz", 'wb'): the output is created, or truncated
\* when it exists, and is not a complete stream yet.
GzCreate(d, n, t) == Put(d, GzName(n), File(<<>>, t, FALSE))

\* shutil.copyfileobj and the close of both files: the stream is complete.
GzCopy(d, n, t) == Put(d, GzName(n), File(d[n].lines, t, TRUE))

\* GzPartial with the original removed whether or not the copy succeeded
GzPartialDropsOriginal(d, n, k, t) ==
    Remove(Put(d, GzName(n), File(SubSeq(d[n].lines, 1, k), t, FALSE)), n)

\* The copy raised after k lines: the output stays, cut short.
GzPartial(d, n, k, t) == Put(d, GzName(n), File(SubSeq(d[n].lines, 1, k), t, FALSE))

\* os.remove(filename), reached only when the copy did not raise
RemoveOriginal(d, n) == Remove(d, n)

\* The `rotate` command: AutoSysMonitor.rotate_logs enters rotate_logs, in a
\* process of its own, between two operations of the sampler.
ManualRotate ==
    /\ pc \in Boundaries
    /\ manual < MaxManual
    /\ manual' = manual + 1
    /\ ret' = pc
    /\ caller' = "cli"
    /\ rts' = now
    /\ pre' = fs
    /\ cfailed' = {}
    /\ pc' = "rot_log"
    /\ Consume
    /\ UNCHANGED <<now, fs, driver, metrics, cname, killedAt, tick, text, nrec, faults,
                   breaches, alertsWritten, reader, calls>>

RotStream == IF pc = "rot_log" THEN "syslog" ELSE "alerts"
\* rotate_logs returning after the metrics stream
AfterStreamSkipsAlerts(s) == "rot_ret"
AfterStream(s) == IF s = "syslog" THEN "rot_alert" ELSE "rot_ret"

\* rotate_logs: if os.path.exists(file): shutil.move(file, backup_name)
RotMove ==
    /\ pc \in {"rot_log", "rot_alert"}
    /\ IF Exists(fs, Active(RotStream))
       THEN /\ fs' = Move(fs, Active(RotStream), BackupName(RotStream, rts))
            /\ cname' = BackupName(RotStream, rts)
            /\ pc' = "c_open"
       ELSE /\ pc' = AfterStream(RotStream)
            /\ UNCHANGED <<fs, cname>>
    /\ Consume
    /\ UNCHANGED <<now, driver, metrics, caller, ret, rts, pre, cfailed, killedAt, tick, text,
                   counters, reader, calls>>

\* _compress_file: both files are opened.
CompressOpen ==
    /\ pc = "c_open"
    /\ fs' = GzCreate(fs, cname, now)
    /\ pc' = "c_copy"
    /\ Consume
    /\ UNCHANGED <<now, driver, metrics, rotation, killedAt, tick, text, counters, reader, calls>>

\* _compress_file: an open raises; the exception is caught and printed.
CompressOpenFail ==
    /\ pc = "c_open"
    /\ faults < MaxFaults
    /\ faults' = faults + 1
    /\ cfailed' = cfailed \cup {cname.stream}
    /\ failed' = (failed \/ caller = "loop")
    /\ pc' = AfterStream(cname.stream)
    /\ Consume
    /\ UNCHANGED <<now, fs, driver, metrics, caller, ret, rts, cname, pre, killedAt, waited,
                   text, nrec, manual, breaches, alertsWritten, reader, calls>>

\* _compress_file: the copy, and the close of the with blocks
CompressCopy ==
    /\ pc = "c_copy"
    /\ fs' = GzCopy(fs, cname, now)
    /\ pc' = "c_remove"
    /\ Consume
    /\ UNCHANGED <<now, driver, metrics, rotation, killedAt, tick, text, counters, reader, calls>>

\* _compress_file: the copy raises part-way; caught and printed.
CompressCopyFail ==
    /\ pc = "c_copy"
    /\ faults < MaxFaults
    /\ faults' = faults + 1
    /\ \E k \in 0..Len(fs[cname].lines) : fs' = GzPartial(fs, cname, k, now)
    /\ cfailed' = cfailed \cup {cname.stream}
    /\ failed' = (failed \/ caller = "loop")
    /\ pc' = AfterStream(cname.stream)
    /\ Consume
    /\ UNCHANGED <<now, driver, metrics, caller, ret, rts, cname, pre, killedAt, waited,
                   text, nrec, manual, breaches, alertsWritten, reader, calls>>

\* _compress_file: os.remove(filename)
CompressRemove ==
    /\ pc = "c_remove"
    /\ fs' = RemoveOriginal(fs, cname)
    /\ pc' = AfterStream(cname.stream)
    /\ Consume
    /\ UNCHANGED <<now, driver, metrics, rotation, killedAt, tick, text, counters, reader, calls>>

\* rotate_logs returns: to the loop's time.sleep, or to the shell.
RotReturn ==
    /\ pc = "rot_ret"
    /\ pc' = (IF caller = "loop" THEN "sleep" ELSE ret)
    /\ caller' = "loop"
    /\ ret' = "none"
    /\ rts' = 0
    /\ cname' = None
    /\ pre' = EmptyDisk
    /\ cfailed' = {}
    /\ Consume
    /\ UNCHANGED <<now, fs, driver, metrics, killedAt, tick, text, counters, reader, calls>>

(* ------------------- failing filesystem operations ------------------ *)

\* log_metrics without its try: the exception reaches the loop's except clause
AfterLogErrorUncaught == "top"
\* Where the loop is after log_metrics caught an exception of its open or
\* write: the except clause prints and the call returns.
AfterLogError == "alerts"

\* log_metrics: open or write raises; nothing is appended.
LogMetricsFail ==
    /\ pc = "log"
    /\ metrics # None
    /\ faults < MaxFaults
    /\ faults' = faults + 1
    /\ failed' = TRUE
    /\ pc' = AfterLogError
    /\ Consume
    /\ UNCHANGED <<now, fs, driver, metrics, rotation, killedAt, waited, text, nrec, manual,
                   breaches, alertsWritten, reader, calls>>

\* check_alerts: log_alert's open or write raises, caught in log_alert.
LogAlertFail ==
    /\ pc = "alerts"
    /\ Breach(metrics)
    /\ faults < MaxFaults
    /\ faults' = faults + 1
    /\ failed' = TRUE
    /\ pc' = "check"
    /\ Consume
    /\ UNCHANGED <<now, fs, driver, metrics, rotation, killedAt, waited, text, nrec, manual,
                   breaches, alertsWritten, reader, calls>>

\* check_rotation: getsize or getmtime raises in _needs_rotation, which
\* prints and returns False.
NeedsRotationFail ==
    /\ pc = "check"
    /\ Exists(fs, Active("syslog"))
    /\ faults < MaxFaults
    /\ faults' = faults + 1
    /\ failed' = TRUE
    /\ pc' = "sleep"
    /\ Consume
    /\ UNCHANGED <<now, fs, driver, metrics, rotation, killedAt, waited, text, nrec, manual,
                   breaches, alertsWritten, reader, calls>>

\* rotate_logs: shutil.move raises; rotate_logs's except clause prints and
\* the call returns, the stream after it not rotated.
RotMoveFail ==
    /\ pc \in {"rot_log", "rot_alert"}
    /\ Exists(fs, Active(RotStream))
    /\ faults < MaxFaults
    /\ faults' = faults + 1
    /\ failed' = (failed \/ caller = "loop")
    /\ pc' = "rot_ret"
    /\ Consume
    /\ UNCHANGED <<now, fs, driver, metrics, rotation, killedAt, waited, text, nrec, manual,
                   breaches, alertsWritten, reader, calls>>

(* ------------------------------- reads ------------------------------- *)

\* read_log_data (the `plot` command), run between two operations of the
\* writer, or right after a rotation.
ReadData ==
    /\ pc \in Boundaries \cup {"rot_ret"}
    /\ rpc = "idle"
    /\ \E d \in DaysChoices :
          readResult' = [days |-> d, data |-> ReadLogData(fs, now, d)]
    /\ UNCHANGED <<now, fs, driver, pc, metrics, rotation, killedAt, tick, text, counters, reader,
                   calls>>

\* read_log_data when the open of syslog.txt raises: _parse_log_file prints
\* and returns no entries, and the archives are read as usual.
ReadDataFail ==
    /\ pc \in Boundaries \cup {"rot_ret"}
    /\ rpc = "idle"
    /\ Exists(fs, Active("syslog"))
    /\ faults < MaxFaults
    /\ faults' = faults + 1
    /\ \E d \in DaysChoices :
          readResult' =
             [days |-> d,
              data |-> SortByTimestamp(ParseBackups(fs, GetBackupFiles(fs, now, d), now, d))]
    /\ UNCHANGED <<now, fs, driver, pc, metrics, rotation, killedAt, tick, text, nrec, manual,
                   breaches, alertsWritten, reader, calls>>

(* ------------------------ the concurrent reader ---------------------- *)

\* read_log_data is called, in a process of its own, while the sampler runs.
ReadStart ==
    /\ rpc = "idle"
    /\ \E d \in DaysChoices :
          /\ rdays' = d
          /\ rstart' = Range(ReadLogData(fs, now, d))
    /\ rdata' = <<>>
    /\ rpc' = "exists"
    /\ UNCHANGED <<now, fs, driver, pc, metrics, rotation, killedAt, tick, text, counters, readResult,
                   rnames, rkeep, calls>>

\* if os.path.exists(self.log_file):
ReadExists ==
    /\ rpc = "exists"
    /\ rpc' = (IF Exists(fs, Active("syslog")) THEN "open_active" ELSE "listdir")
    /\ UNCHANGED <<now, fs, driver, pc, metrics, rotation, killedAt, tick, text, counters, readResult,
                   rdays, rdata, rnames, rkeep, rstart, calls>>

\* data.extend(self._parse_log_file(self.log_file, days))
ReadActive ==
    /\ rpc = "open_active"
    /\ rdata' = rdata \o ParseLogFile(fs, Active("syslog"), now, rdays)
    /\ rpc' = "listdir"
    /\ UNCHANGED <<now, fs, driver, pc, metrics, rotation, killedAt, tick, text, counters, readResult,
                   rdays, rnames, rkeep, rstart, calls>>

\* _get_backup_files: os.listdir('.')
ReadListdir ==
    /\ rpc = "listdir"
    /\ rnames' = Backups(fs)
    /\ rkeep' = {}
    /\ rpc' = "mtime"
    /\ UNCHANGED <<now, fs, driver, pc, metrics, rotation, killedAt, tick, text, counters, readResult,
                   rdays, rdata, rstart, calls>>

\* _get_backup_files: os.path.getmtime of one listed name, in the order
\* os.listdir gave (any); a name that is gone raises, which ends the loop.
ReadMtime ==
    /\ rpc = "mtime"
    /\ IF rnames = {}
       THEN rpc' = "open" /\ UNCHANGED <<rnames, rkeep>>
       ELSE \E n \in rnames :
               IF Exists(fs, n)
               THEN /\ rnames' = rnames \ {n}
                    /\ rkeep' = (IF fs[n].mtime >= Cutoff(now, rdays)
                                 THEN rkeep \cup {n} ELSE rkeep)
                    /\ rpc' = "mtime"
               ELSE /\ rnames' = {}
                    /\ rkeep' = rkeep
                    /\ rpc' = "open"
    /\ UNCHANGED <<now, fs, driver, pc, metrics, rotation, killedAt, tick, text, counters, readResult,
                   rdays, rdata, rstart, calls>>

\* for backup_file in backup_files: the next one in sorted order is parsed.
ReadBackup ==
    /\ rpc = "open"
    /\ rkeep # {}
    /\ LET n == Head(SortNames(rkeep))
       IN  /\ rdata' = rdata \o ParseBackup(fs, n, now, rdays)
           /\ rkeep' = rkeep \ {n}
    /\ UNCHANGED <<now, fs, driver, pc, metrics, rotation, killedAt, tick, text, counters, readResult,
                   rpc, rdays, rnames, rstart, calls>>

\* data.sort(...); return data
ReadReturn ==
    /\ rpc = "open"
    /\ rkeep = {}
    /\ rdata' = SortByTimestamp(rdata)
    /\ rpc' = "done"
    /\ UNCHANGED <<now, fs, driver, pc, metrics, rotation, killedAt, tick, text, counters, readResult,
                   rdays, rnames, rkeep, rstart, calls>>

\* time.sleep(60) lasts longer than a read: the loop's next tick starts when
\* no read is under way.
SleepOutsideRead == rpc \in {"idle", "done"} /\ Sleep

(* ------------------- the log store, character by character ---------- *)

\* the records a sample can carry at second t, percents outside 0..100 too
TextSamples(t) ==
    [timestamp : {t}, cpu_percent : TextCpu, memory_percent : MemValues,
     disk_percent : TextDisk]

\* log_metrics: the line is written and flushed.
TextAppend ==
    /\ Len(logged) < MaxTextLines
    /\ \E m \in TextSamples(now) :
          /\ content' = content \o FormatLine(m)
          /\ logged' = Append(logged, m)
    /\ parsed' = None
    /\ UNCHANGED <<now, fs, driver, pc, metrics, rotation, killedAt, counters, readResult,
                   reader, tick, cuts, garbage, calls>>

\* log_metrics: the write raises (the disk is full) j characters before the
\* end of the line; what was written stays in the file, and the except
\* clause prints.
TextAppendCut ==
    /\ Len(logged) < MaxTextLines
    /\ cuts < MaxCuts
    /\ \E m \in TextSamples(now) :
          \E j \in CutBack :
             /\ content' = content \o SubSeq(FormatLine(m), 1, Len(FormatLine(m)) - j)
             /\ logged' = Append(logged, m)
    /\ cuts' = cuts + 1
    /\ parsed' = None
    /\ UNCHANGED <<now, fs, driver, pc, metrics, rotation, killedAt, counters, readResult,
                   reader, tick, garbage, calls>>

\* Something else than log_metrics puts one line into syslog.txt.
TextGarbage ==
    /\ garbage < MaxGarbage
    /\ \E g \in GarbageLines : content' = content \o g
    /\ garbage' = garbage + 1
    /\ parsed' = None
    /\ UNCHANGED <<now, fs, driver, pc, metrics, rotation, killedAt, counters, readResult,
                   reader, tick, logged, cuts, calls>>

\* read_log_data
TextRead ==
    /\ \E d \in DaysChoices : parsed' = [days |-> d, data |-> ReadText(content, now, d)]
    /\ UNCHANGED <<now, fs, driver, pc, metrics, rotation, killedAt, counters, readResult,
                   reader, tick, content, logged, cuts, garbage, calls>>

\* time.sleep after a tick: the next tick is a second later.
TextSleep ==
    /\ now < MaxTime
    /\ content # <<>>
    /\ now' = now + 1
    /\ parsed' = None
    /\ UNCHANGED <<fs, driver, pc, metrics, rotation, killedAt, counters, readResult,
                   reader, tick, content, logged, cuts, garbage, calls>>

(* ------------- AutoSysMonitor called from several threads ------------ *)

\* The position of the first sampling thread.
Pos1 == IF caller = "loop" THEN pc ELSE ret

Live1 == Pos1 \notin {"none", "done", "killed"}
Live2 == pc2 \notin {"none", "done"}

\* the sampling threads that have been started and have not left _monitor_loop
LiveSamplers == (IF Live1 THEN 1 ELSE 0) + (IF Live2 THEN 1 ELSE 0)

\* A name for the next Thread object: one no live thread has and no
\* stop_monitoring is joining.
Free(i) ==
    /\ IF i = 1 THEN ~Live1 ELSE ~Live2
    /\ \A c \in Callers : callers[c] # <<"join", i>>

\* start_monitoring with monitoring not set: the flag is set, a new thread
\* is made and started, and the caller enters `while self.monitoring`.
StartCall(c) ==
    /\ callers[c] = <<"idle", 0>>
    /\ ~monitoring
    /\ caller = "loop"
    /\ \E i \in {1, 2} :
          /\ Free(i)
          /\ i = 2 => ~Free(1)
          /\ monitor_thread' = i
          /\ IF i = 1 THEN pc' = "top" /\ pc2' = pc2 ELSE pc2' = "top" /\ pc' = pc
    /\ monitoring' = TRUE
    /\ callers' = [callers EXCEPT ![c] = <<"wait", 0>>]
    /\ Consume
    /\ UNCHANGED <<now, fs, mpc, handler, metrics, rotation, killedAt, tick, text, counters,
                   reader, wake2>>

\* start_monitoring with monitoring set: it prints and returns.
StartCallAlready(c) ==
    /\ callers[c] = <<"idle", 0>>
    /\ monitoring
    /\ UNCHANGED vars

\* `while self.monitoring: time.sleep(1)` ends and start_monitoring returns.
WaitLoopExit(c) ==
    /\ callers[c] = <<"wait", 0>>
    /\ ~monitoring
    /\ callers' = [callers EXCEPT ![c] = <<"idle", 0>>]
    /\ Consume
    /\ UNCHANGED <<now, fs, driver, pc, metrics, rotation, killedAt, tick, text, counters,
                   reader, monitor_thread, pc2, wake2>>

\* stop_monitoring with monitoring set: the flag is cleared and the thread
\* that monitor_thread names is joined.
StopCall(c) ==
    /\ callers[c] = <<"idle", 0>>
    /\ monitoring
    /\ monitoring' = FALSE
    /\ callers' = [callers EXCEPT
                     ![c] = IF monitor_thread = 0 THEN <<"idle", 0>>
                            ELSE <<"join", monitor_thread>>]
    /\ Consume
    /\ UNCHANGED <<now, fs, mpc, handler, pc, metrics, rotation, killedAt, tick, text,
                   counters, reader, monitor_thread, pc2, wake2>>

\* stop_monitoring with monitoring not set: it prints and returns.
StopCallIdle(c) ==
    /\ callers[c] = <<"idle", 0>>
    /\ ~monitoring
    /\ UNCHANGED vars

\* monitor_thread.join() returns: the joined thread has left _monitor_loop.
JoinReturn(c) ==
    /\ callers[c][1] = "join"
    /\ IF callers[c][2] = 1 THEN Pos1 = "done" ELSE pc2 = "done"
    /\ callers' = [callers EXCEPT ![c] = <<"idle", 0>>]
    /\ Consume
    /\ UNCHANGED <<now, fs, driver, pc, metrics, rotation, killedAt, tick, text, counters,
                   reader, monitor_thread, pc2, wake2>>

\* the second sampling thread: while self.monitoring:
Loop2Top ==
    /\ pc2 = "top"
    /\ pc2' = (IF monitoring THEN "body" ELSE "done")
    /\ Consume
    /\ UNCHANGED <<now, fs, driver, pc, metrics, rotation, killedAt, tick, text, counters,
                   reader, callers, monitor_thread, wake2>>

\* the disk after log_metrics and check_alerts of one tick with sample m
AfterAppends(d, m, t) ==
    IF Breach(m)
    THEN AppendLine(LogMetricsWrite(d, m, t), Active("alerts"),
                    FormatAlert(t, AlertMessage(m)), t)
    ELSE LogMetricsWrite(d, m, t)

\* the second sampling thread: one tick between two operations of the
\* first, up to its time.sleep or to the entry of its rotate_logs, whose
\* steps then run as those of a `rotate` command do.
Loop2Body ==
    /\ pc2 = "body"
    /\ pc \in Boundaries
    /\ \E m \in {None} \cup (IF nrec < MaxRecords THEN Samples ELSE {}) :
          /\ nrec' = (IF m = None THEN nrec ELSE nrec + 1)
          /\ breaches' = (IF Breach(m) THEN breaches + 1 ELSE breaches)
          /\ alertsWritten' = (IF Breach(m) THEN alertsWritten + 1 ELSE alertsWritten)
          /\ fs' = AfterAppends(fs, m, now)
          /\ IF NeedsRotation(AfterAppends(fs, m, now), now)
             THEN /\ pc' = "rot_log"
                  /\ ret' = pc
                  /\ caller' = "second"
                  /\ rts' = now
                  /\ pre' = AfterAppends(fs, m, now)
                  /\ cfailed' = {}
             ELSE UNCHANGED <<pc, ret, caller, rts, pre, cfailed>>
    /\ pc2' = "sleep"
    /\ wake2' = now + 1
    /\ Consume
    /\ UNCHANGED <<now, driver, metrics, cname, killedAt, tick, text, faults, manual, reader,
                   callers, monitor_thread>>

\* the second sampling thread: its time.sleep(60) is over.
Loop2Wake ==
    /\ pc2 = "sleep"
    /\ caller # "second"
    /\ now >= wake2
    /\ pc2' = "top"
    /\ Consume
    /\ UNCHANGED <<now, fs, driver, pc, metrics, rotation, killedAt, tick, text, counters,
                   reader, callers, monitor_thread, wake2>>

(* --------------------------- specifications -------------------------- *)

Driver == StartMonitoring \/ StopMonitoring \/ Join \/ SignalHandler \/ ProcessExit
Loop == LoopTop \/ Sample \/ LogMetrics \/ CheckAlerts \/ CheckRotation \/ Sleep
Rotate ==
    \/ ManualRotate \/ RotMove \/ CompressOpen \/ CompressOpenFail
    \/ CompressCopy \/ CompressCopyFail \/ CompressRemove \/ RotReturn

Next == Driver \/ Loop \/ Rotate \/ ReadData \/ Advance

Spec == Init /\ [][Next]_vars

\* The sampler started by `start`, and one `plot` reading while it runs.
InitConc == Init /\ handler

Reader ==
    \/ ReadStart \/ ReadExists \/ ReadActive \/ ReadListdir \/ ReadMtime
    \/ ReadBackup \/ ReadReturn

NextConc ==
    \/ StartMonitoring \/ LoopTop \/ Sample \/ LogMetrics \/ CheckAlerts
    \/ CheckRotation \/ SleepOutsideRead
    \/ RotMove \/ CompressOpen \/ CompressCopy \/ CompressRemove \/ RotReturn
    \/ Reader

SpecConc == InitConc /\ [][NextConc]_vars

\* The sampler thread's steps, those that fail included.
SamplerStep ==
    \/ LoopTop \/ Sample \/ LogMetrics \/ LogMetricsFail \/ CheckAlerts \/ LogAlertFail
    \/ CheckRotation \/ NeedsRotationFail \/ RotMove \/ RotMoveFail
    \/ CompressOpen \/ CompressOpenFail \/ CompressCopy \/ CompressCopyFail
    \/ CompressRemove \/ RotReturn \/ Sleep

NextTick == Driver \/ SamplerStep \/ ReadData \/ ReadDataFail

\* `start` with failing filesystem operations.  The sampler is a thread of
\* its own: while the process lives it always gets to run its next step
\* (every step of the sampler changes pc).
SpecTick == Init /\ [][NextTick]_vars /\ WF_pc(SamplerStep)

\* read_log_data on a directory whose segments hold records of equal
\* timestamps: the metrics lines two samplers wrote in one directory, or one
\* sampler across a step back of the local clock.  Each segment holds one
\* or two lines, in the order of their timestamps; the archives are the
\* compressed one of a rotation at second 0 and the uncompressed one that a
\* failed compression left at second 1.
QueryLines ==
    {FormatMetrics(m) :
        m \in [timestamp : {0, 1}, cpu_percent : CpuValues,
               memory_percent : MemValues, disk_percent : DiskValues]}
QuerySegments ==
    {<<a>> : a \in QueryLines}
    \cup {q \in QueryLines \X QueryLines : q[1].stamp <= q[2].stamp}
QueryDisk(a, g, u) ==
    Put(Put(Put(EmptyDisk, Active("syslog"), File(a, 1, TRUE)),
            GzName(BackupName("syslog", 0)), File(g, 1, TRUE)),
        BackupName("syslog", 1), File(u, 1, TRUE))

InitQuery ==
    /\ now = 1
    /\ \E a, g, u \in QuerySegments : fs = QueryDisk(a, g, u)
    /\ NothingRuns

NextQuery == ReadData

SpecQuery == InitQuery /\ [][NextQuery]_vars

\* log_metrics and read_log_data on the characters of syslog.txt.
NextText == TextAppend \/ TextAppendCut \/ TextGarbage \/ TextRead \/ TextSleep

InitText == Init /\ handler

SpecText == InitText /\ [][NextText]_vars

\* `start` run again and again in one directory, with no failing operation:
\* main installs signal_handler, and a signal ends the process wherever the
\* sampler is.
InitRuns == Init /\ handler

NextRuns ==
    \/ StartMonitoring \/ SignalHandler \/ ProcessExit \/ Restart
    \/ Loop
    \/ RotMove \/ CompressOpen \/ CompressCopy \/ CompressRemove \/ RotReturn
    \/ Advance

SpecRuns == InitRuns /\ [][NextRuns]_vars

\* One AutoSysMonitor whose start_monitoring and stop_monitoring are called
\* by the threads of a program, with no failing operation.
InitCalls == Init /\ ~handler

NextCalls ==
    \/ \E c \in Callers :
          \/ StartCall(c) \/ StartCallAlready(c) \/ WaitLoopExit(c)
          \/ StopCall(c) \/ StopCallIdle(c) \/ JoinReturn(c)
    \/ Loop
    \/ RotMove \/ CompressOpen \/ CompressCopy \/ CompressRemove \/ RotReturn
    \/ Loop2Top \/ Loop2Body \/ Loop2Wake
    \/ Advance

SpecCalls == InitCalls /\ [][NextCalls]_vars

(* ------------------------------ claims ------------------------------- *)

Occurrences(e, q) == Cardinality({i \in 1..Len(q) : q[i] = e})
SortedByTimestamp(q) == \A i, j \in 1..Len(q) : i < j => q[i].timestamp <= q[j].timestamp

\* the lines of a file as entries, no window applied
RECURSIVE Entries(_)
Entries(ls) ==
    IF ls = <<>> THEN <<>>
    ELSE (IF ParseLogLine(Head(ls)) # None THEN <<ParseLogLine(Head(ls))>> ELSE <<>>)
         \o Entries(Tail(ls))

\* positions of rotate_logs
InRotation == pc \in {"rot_log", "rot_alert", "c_open", "c_copy", "c_remove", "rot_ret"}

\* the streams the running rotate_logs has moved
MovedStreams ==
    {s \in Streams :
        /\ Exists(pre, Active(s))
        /\ \/ pc = "rot_ret"
           \/ s = "syslog" /\ pc # "rot_log"
           \/ s = "alerts" /\ pc \in {"c_open", "c_copy", "c_remove"} /\ cname.stream = "alerts"}

\* a complete copy of what rotate_logs moved out of stream s is on disk
CompleteCopy(s) ==
    LET b == BackupName(s, rts)
        moved == pre[Active(s)].lines
    IN  \/ Exists(fs, b) /\ fs[b].lines = moved
        \/ Exists(fs, GzName(b)) /\ fs[GzName(b)].ok /\ fs[GzName(b)].lines = moved

\* C1: a read_log_data that ran while the sampler appended and rotated
\* returns every record that was readable when it started and is still in its
\* window when it returns.
C1_ConcurrentReadLosesNothing ==
    rpc = "done" =>
        \A e \in rstart : e.timestamp >= Cutoff(now, rdays) => e \in Range(rdata)

\* C2: a complete compressed archive that exists keeps its content in every
\* step: no rotation overwrites or removes it.
C2_ArchivesNeverOverwritten ==
    [][\A n \in DOMAIN fs :
          (n.kind = "gz" /\ fs[n].ok) => (n \in DOMAIN fs' /\ fs'[n].lines = fs[n].lines)]_vars

\* C3: in every state of a rotation a complete copy of the records it moved
\* exists, as the uncompressed archive or as a completely written compressed
\* one; and when the compression of a stream failed, its uncompressed archive
\* is on disk with all its records.
C3_CompressionNeverLosesData ==
    InRotation =>
        /\ \A s \in MovedStreams : CompleteCopy(s)
        /\ \A s \in cfailed :
              /\ Exists(fs, BackupName(s, rts))
              /\ fs[BackupName(s, rts)].lines = pre[Active(s)].lines

\* C3's case: a compression failed part-way, leaving a cut-short output
C3_Witness ==
    /\ pc = "rot_ret"
    /\ "syslog" \in cfailed
    /\ Len(pre[Active("syslog")].lines) >= 2
    /\ Exists(fs, GzName(BackupName("syslog", rts)))
    /\ ~fs[GzName(BackupName("syslog", rts))].ok

\* The metrics stream is spread over the active segment, one complete
\* compressed archive and one uncompressed archive of another rotation, all
\* records within the window of the read.
SpreadCase(days) ==
    /\ Exists(fs, Active("syslog"))
    /\ \E g, u \in Backups(fs) :
          /\ Backups(fs) = {g, u}
          /\ g.kind = "gz" /\ fs[g].ok /\ u.kind = "txt" /\ g.ts # u.ts
          /\ fs[g].lines # <<>> /\ fs[u].lines # <<>>
    /\ fs[Active("syslog")].lines # <<>>
    /\ \A n \in Backups(fs) \cup {Active("syslog")} :
          \A i \in 1..Len(fs[n].lines) : fs[n].lines[i].stamp >= Cutoff(now, days)

RECURSIVE AllEntries(_)
AllEntries(names) ==
    IF names = <<>> THEN <<>>
    ELSE Entries(fs[Head(names)].lines) \o AllEntries(Tail(names))

\* every entry of the metrics stream's segments on disk
DiskEntries == AllEntries(<<Active("syslog")>> \o SortNames(Backups(fs)))

\* C4: in the spread case read_log_data returns every record of the three
\* segments exactly once, in ascending order of timestamp.
C4_WindowQueryComplete ==
    (readResult # None /\ SpreadCase(readResult.days)) =>
        /\ SortedByTimestamp(readResult.data)
        /\ Len(readResult.data) = Len(DiskEntries)
        /\ \A e \in Range(DiskEntries) :
              Occurrences(e, readResult.data) = Occurrences(e, DiskEntries)

\* C4's case: a read in the spread case
C4_Witness == readResult # None /\ SpreadCase(readResult.days)

\* C5: right after a rotation of the metrics stream whose compression did not
\* fail, the active segment is absent, the archives on disk are those from
\* before the rotation and exactly one new one, compressed, and a read returns
\* every record that a read before the rotation returned.
C5_RotationPreservesHistory ==
    (pc = "rot_ret" /\ Exists(pre, Active("syslog")) /\ "syslog" \notin cfailed) =>
        /\ ~Exists(fs, Active("syslog"))
        /\ Backups(fs) \ Backups(pre) = {GzName(BackupName("syslog", rts))}
        /\ \A d \in DaysChoices :
              Range(ReadLogData(pre, now, d)) \subseteq Range(ReadLogData(fs, now, d))

\* C6: check_rotation enters rotate_logs, with the active segment there to be
\* moved, when the segment is larger than max_size; it changes no file and
\* goes on to sleep when the segment is at most max_size and younger than
\* max_age days, or absent.
C6_SizeTrigger ==
    [][CheckRotation =>
          IF Exists(fs, Active("syslog")) /\ GetSize(fs, Active("syslog")) > max_size
          THEN pc' = "rot_log" /\ pre' = fs /\ rts' = now
          ELSE IF ~Exists(fs, Active("syslog"))
                  \/ FileAgeDays(fs, Active("syslog"), now) < max_age
               THEN pc' = "sleep" /\ fs' = fs
               ELSE TRUE]_vars

\* C6's case: check_rotation rotated a segment on its size alone
C6_Witness ==
    /\ pc = "rot_alert"
    /\ caller = "loop"
    /\ GetSize(pre, Active("syslog")) > max_size
    /\ FileAgeDays(pre, Active("syslog"), rts) < max_age
    /\ Exists(fs, GzName(BackupName("syslog", rts)))

\* C7: check_rotation enters rotate_logs when the active segment was last
\* modified max_age or more whole days ago, whatever its size, and also when
\* it is larger than max_size, whatever its age.
C7_AgeTrigger ==
    [][CheckRotation =>
          /\ (Exists(fs, Active("syslog"))
              /\ (now - fs[Active("syslog")].mtime) >= max_age * DaySecs)
                => pc' = "rot_log"
          /\ (Exists(fs, Active("syslog")) /\ GetSize(fs, Active("syslog")) > max_size)
                => pc' = "rot_log"]_vars

\* C7's case: check_rotation rotated a segment on its age alone
C7_Witness ==
    /\ pc = "rot_alert"
    /\ caller = "loop"
    /\ GetSize(pre, Active("syslog")) <= max_size
    /\ FileAgeDays(pre, Active("syslog"), rts) >= max_age
    /\ Exists(fs, GzName(BackupName("syslog", rts)))

\* C8: when check_rotation rotates the alerts stream, the alerts segment's
\* own size or age met the rotation policy.
C8_AlertsRotateOnOwnState ==
    (pc = "c_open" /\ caller = "loop" /\ cname.stream = "alerts") =>
        \/ GetSize(pre, Active("alerts")) > max_size
        \/ FileAgeDays(pre, Active("alerts"), rts) >= max_age

\* C9: check_alerts appends one line, naming the record's cpu value and
\* timestamp, when the record's cpu is above the threshold, and leaves the
\* disk alone otherwise; after each tick's check the alert lines written are
\* as many as the ticks that breached.
C9_NoAlertSuppression ==
    /\ [][CheckAlerts =>
            IF metrics # None /\ metrics.cpu_percent > cpu_threshold
            THEN fs' = AppendLine(fs, Active("alerts"),
                          [kind |-> "alert", stamp |-> now,
                           msg |-> [cpu |-> metrics.cpu_percent, at |-> metrics.timestamp]],
                          now)
            ELSE fs' = fs]_vars
    /\ [](pc \in {"check", "sleep", "top", "sample", "done"} => alertsWritten = breaches)

\* C9's case: ticks that breached and ticks that did not, all checked
C9_Witness ==
    /\ pc = "sleep"
    /\ nrec = MaxRecords
    /\ breaches >= 1
    /\ breaches < nrec
    /\ alertsWritten = breaches

\* C10: when the process has left start_monitoring after a stop signal, the
\* monitoring flag is cleared, the sampling thread was not stopped from
\* outside, and its loop has exited by itself: the driver joined it.
C10_StopDrainsTickAndJoins ==
    mpc \in {"exited", "returned"} =>
        /\ ~monitoring
        /\ killedAt = Alive
        /\ (IF caller = "cli" THEN ret ELSE pc) = "done"

\* C11: when a step of a tick failed (the sample, the metrics append, the
\* alert write or the rotation check), the wait before the next tick is the
\* back-off interval; and the loop has exited only with the flag cleared.
C11_BackOffOnFailure ==
    /\ (pc = "top" /\ failed) => waited = BackOffInterval
    /\ pc = "done" => ~monitoring

\* C12: a failing append, alert write, rotation check, move, compression or
\* read changes no file it did not mean to and lets the caller go on with its
\* next step; the loop exits only with the flag cleared and the thread stops
\* only when the process exits; every tick that begins comes to its wait,
\* and after the wait, while the flag is set, the next tick begins.
C12_NeverCrashLoop ==
    /\ [][/\ LogMetricsFail => (pc' = "alerts" /\ fs' = fs)
          /\ LogAlertFail => (pc' = "check" /\ fs' = fs)
          /\ NeedsRotationFail => (pc' = "sleep" /\ fs' = fs)
          /\ RotMoveFail => (pc' = "rot_ret" /\ fs' = fs)
          /\ (CompressOpenFail \/ CompressCopyFail) => pc' \in {"rot_alert", "rot_ret"}
          /\ ReadDataFail => (pc' = pc /\ fs' = fs /\ readResult' # None)]_vars
    /\ [](pc = "done" => ~monitoring)
    /\ [](pc = "killed" => mpc = "exited")
    /\ (pc = "sample") ~> (pc \in {"sleep", "killed"})
    /\ (pc = "sleep" /\ now < MaxTime) ~> (pc = "sample" \/ ~monitoring \/ pc = "killed")

\* C12's case: the metrics append of a breaching tick failed, the alert was
\* written all the same and the tick is at its rotation check
C12_Witness ==
    /\ pc = "check"
    /\ failed
    /\ Breach(metrics)
    /\ ~Exists(fs, Active("syslog"))
    /\ Exists(fs, Active("alerts"))

\* C13: log_metrics and check_alerts given None leave every file as it is
\* and create none.
C13_NoneIsNoOp ==
    [][((LogMetrics \/ CheckAlerts) /\ metrics = None) => fs' = fs]_vars

\* C13's case: a tick whose sample was None went through log_metrics and
\* check_alerts with no file on disk
C13_Witness ==
    /\ pc = "check"
    /\ metrics = None
    /\ failed
    /\ fs = EmptyDisk

\* the records of logged that are in the window of a read at second t
InWindow(q, t, days) == SelectSeq(q, LAMBDA m : m.timestamp >= Cutoff(t, days))

\* C14: every record that read_log_data returns from a file written by
\* log_metrics alone is one of the records that were passed to log_metrics,
\* never one made of a line that was written in part.
C14_NoCorruptRecord ==
    (parsed # None /\ garbage = 0) =>
        \A i \in 1..Len(parsed.data) : parsed.data[i] \in Range(logged)

\* C15: whatever the file holds, read_log_data returns exactly the records
\* of its well-formed lines in the window, each line taken by itself: a line
\* that does not parse is left out and hides no other line.
C15_MalformedLineTolerance ==
    parsed # None =>
        parsed.data =
            SortByTimestamp(ParseTextLines(FileLines(content), Cutoff(now, parsed.days)))

\* C16: the line log_metrics writes for a record parses back to the record's
\* timestamp and percents; and a read of a file that holds only completely
\* written lines returns the records logged within its window, in order.
C16_RoundTrip ==
    /\ \A i \in 1..Len(logged) : ParseLine(Strip(FormatLine(logged[i]))) = logged[i]
    /\ (parsed # None /\ cuts = 0 /\ garbage = 0) =>
           parsed.data = InWindow(logged, now, parsed.days)

\* C16's case: a read returned a record below 0 and one above 100
C16_Witness ==
    /\ parsed # None
    /\ cuts = 0
    /\ garbage = 0
    /\ \E i, j \in 1..Len(parsed.data) :
          parsed.data[i].cpu_percent < 0 /\ parsed.data[j].cpu_percent > 1000

\* the records of q with timestamp t, in q's order
AtStamp(q, t) == SelectSeq(q, LAMBDA e : e.timestamp = t)

\* C17: read_log_data's result is in ascending order of timestamp, and the
\* records of one timestamp are in the order in which they were collected:
\* the active segment's, then each archive's in the order of the sorted
\* names, each segment's in the order of its lines.
C17_StableSort ==
    readResult # None =>
        /\ SortedByTimestamp(readResult.data)
        /\ Len(readResult.data) = Len(DiskEntries)
        /\ \A t \in 0..MaxTime : AtStamp(readResult.data, t) = AtStamp(DiskEntries, t)

\* C17's case: a read returned two different records of one timestamp, the
\* first from the active segment and the second from an archive
C17_Witness ==
    /\ readResult # None
    /\ \E i, j \in 1..Len(readResult.data) :
          /\ i < j
          /\ readResult.data[i].timestamp = readResult.data[j].timestamp
          /\ readResult.data[i] # readResult.data[j]
          /\ readResult.data[i] \in Range(Entries(fs[Active("syslog")].lines))
          /\ readResult.data[i] \notin Range(Entries(fs[BackupName("syslog", 1)].lines))
          /\ readResult.data[j] \in Range(Entries(fs[BackupName("syslog", 1)].lines))
          /\ readResult.data[j] \notin Range(Entries(fs[Active("syslog")].lines))

\* line l is in the archive that the running rotate_logs made of stream s:
\* the uncompressed one, or the completely written compressed one
Archived(s, l) ==
    \E n \in {BackupName(s, rts), GzName(BackupName(s, rts))} :
        /\ Exists(fs, n)
        /\ n.kind = "gz" => fs[n].ok
        /\ l \in Range(fs[n].lines)

LastLine(d, n) == d[n].lines[Len(d[n].lines)]

\* C18: the steps of a tick follow each other as sample, metrics append,
\* alert check, rotation check; when the rotation check of a breaching tick
\* rotates, the tick's metrics line and its alert line are the last lines of
\* the two active segments, and when that rotation returns both lines are in
\* its archives.
C18_TickStepOrder ==
    /\ [][/\ Sample => pc' = "log"
          /\ LogMetrics => pc' = "alerts"
          /\ CheckAlerts => pc' = "check"
          /\ CheckRotation => pc' \in {"rot_log", "sleep"}
          /\ (CheckRotation /\ pc' = "rot_log" /\ Breach(metrics)) =>
                /\ LastLine(fs, Active("syslog")) = FormatMetrics(metrics)
                /\ Exists(fs, Active("alerts"))
                /\ LastLine(fs, Active("alerts")).msg = AlertMessage(metrics)]_vars
    /\ []((pc = "rot_ret" /\ caller = "loop" /\ Breach(metrics)) =>
            /\ Archived("syslog", FormatMetrics(metrics))
            /\ \E l \in Range(pre[Active("alerts")].lines) :
                  l.msg = AlertMessage(metrics) /\ Archived("alerts", l))

\* C18's case: the rotation check of a breaching tick rotated both streams
C18_Witness ==
    /\ pc = "rot_ret"
    /\ caller = "loop"
    /\ Breach(metrics)
    /\ Archived("syslog", FormatMetrics(metrics))
    /\ Exists(fs, GzName(BackupName("alerts", rts)))

\* the archives of the metrics stream that _get_backup_files leaves out
SkippedArchives(d, t, days) == Backups(d) \ Range(GetBackupFiles(d, t, days))

\* C19: when read_log_data has run, no archive that the modification-time
\* filter left out holds a record with timestamp >= cutoff, and every record
\* returned has timestamp >= cutoff.
C19_FastFilterSound ==
    readResult # None =>
        /\ \A n \in SkippedArchives(fs, now, readResult.days) :
              ParseBackup(fs, n, now, readResult.days) = <<>>
        /\ \A i \in 1..Len(readResult.data) :
              readResult.data[i].timestamp >= Cutoff(now, readResult.days)

\* C19's case: a read that returns records and leaves out an uncompressed
\* archive, one that a failed compression left behind
C19_Witness ==
    /\ readResult # None
    /\ readResult.data # <<>>
    /\ \E n \in SkippedArchives(fs, now, readResult.days) :
          n.kind = "txt" /\ fs[n].lines # <<>>

\* C20: at the rotation check of a tick that appended its metrics line the
\* active segment, unless a `rotate` command has just moved it away, was
\* written in this second and is less than max_age days old, so a rotation in
\* such a tick is one by size; a rotation check that rotates a segment within the size
\* threshold belongs to a tick without a record, max_age whole days after
\* the segment's last write.
C20_AgeTriggerNeedsSilence ==
    /\ (pc = "check" /\ metrics # None /\ Exists(fs, Active("syslog"))) =>
          /\ fs[Active("syslog")].mtime = now
          /\ FileAgeDays(fs, Active("syslog"), now) < max_age
    /\ (pc = "rot_log" /\ caller = "loop" /\ metrics # None) =>
          GetSize(pre, Active("syslog")) > max_size
    /\ (pc = "rot_log" /\ caller = "loop" /\ GetSize(pre, Active("syslog")) <= max_size) =>
          /\ metrics = None
          /\ rts - pre[Active("syslog")].mtime >= max_age * DaySecs

\* C20's case: a tick appended its record to a segment begun max_age days
\* before, and its rotation check rotated
C20_Witness ==
    /\ pc = "rot_log"
    /\ caller = "loop"
    /\ metrics # None
    /\ pre[Active("syslog")].lines[1].stamp <= rts - max_age * DaySecs

\* C21: at the end of every tick (the sampler is at its sleep) syslog.txt is
\* absent or at most max_size bytes, and at all times it is at most max_size
\* bytes plus the length of its last line.
C21_BoundedActiveSegment ==
    /\ (pc = "sleep" /\ Exists(fs, Active("syslog"))) =>
          GetSize(fs, Active("syslog")) <= max_size
    /\ Exists(fs, Active("syslog")) =>
          GetSize(fs, Active("syslog"))
              <= max_size + LineBytes(LastLine(fs, Active("syslog")))

\* the archives of the metrics stream that a compression which raised after
\* it had created its output left in both forms
HalfCompressed(d) == {n \in Backups(d) : n.kind = "txt" /\ Exists(d, GzName(n))}

\* C22: when read_log_data runs after a compression failed part-way, every
\* record in the window that the uncompressed archive holds is in the result
\* exactly once.
C22_NoDuplicateAfterFailedCompression ==
    (readResult # None /\ killedAt = Alive) =>
        \A n \in HalfCompressed(fs) :
            \A e \in Range(ParseLogFile(fs, n, now, readResult.days)) :
                Occurrences(e, readResult.data) = 1

\* C23: a start_monitoring call made while monitoring is set and a
\* stop_monitoring call made while it is not set change nothing, and at most
\* one sampling thread is alive at any time.
C23_SingleSampler ==
    /\ [][\A c \in Callers :
            (StartCallAlready(c) \/ StopCallIdle(c)) => UNCHANGED vars]_vars
    /\ [](LiveSamplers <= 1)

====
